---- MODULE Spec2Model ----
(***************************************************************************)
(* A model of the galois language core: the tree-walking evaluator         *)
(* (src/interpreter/evaluator.rs), its external call surface (src/ffi),    *)
(* the debug call-depth counter (src/debug.rs), the grammar                *)
(* (src/parser/base.rs) and the notation expander (src/parser/notation.rs).*)
(* Spec is the evaluator called with an expression list; SpecFront is the  *)
(* front end called with a source text or with a parsed program.           *)
(*                                                                         *)
(* Expressions, values and errors are tagged tuples whose first element is *)
(* the name of the Rust enum variant.  Environments live in a heap, a      *)
(* sequence of name -> value maps; an environment id is the identity of an *)
(* Rc<RefCell<Environment>>.  The recursion of eval_expr / apply_function  *)
(* is unfolded into a control word `ctl` and a stack of frames, one frame  *)
(* per Rust activation that still has work to do after a sub-evaluation.   *)
(***************************************************************************)
EXTENDS Integers, Sequences, FiniteSets, TLC

VARIABLES
    env,         \* Interpreter.env: id of the current environment
    heap,        \* the environments allocated so far (Rc identity = index)
    stack,       \* pending activations of eval_expr / apply_function
    ctl,         \* what the evaluator does next
    result,      \* the local `result` of Interpreter::interpret
    pc,          \* number of top-level expressions taken by the for loop
    outcome,     \* how interpret ended: running, Ok, Err, panic, crash
    debug_mode,  \* DebugPrinter.debug_mode
    depth,       \* the thread-local DEPTH of debug.rs
    modules,     \* FFIBackend.modules: the languages with a backend
    py_modules,  \* PythonFFI.modules: module name -> times its code was run
    entry,       \* the public function that was called
    input,       \* parse_program: the source text, one character per element
    stage,       \* how far the front end (parse, expand) has come
    base,        \* the result of base::parse_program
    parsed,      \* the result of parser::parse_program / apply_notations
    again        \* the result of expanding the expanded program once more

front == <<entry, input, stage, base, parsed, again>>

vars == <<env, heap, stack, ctl, result, pc, outcome, debug_mode, depth,
          modules, py_modules, entry, input, stage, base, parsed, again>>

(***************************************************************************)
(* Bounds of the model and constants of the program.                       *)
(***************************************************************************)
MaxProg == 3            \* top-level expressions handed to interpret
HostStackFrames == 3    \* nested apply_function activations the host stack holds
MAX_DEPTH == 1000       \* debug.rs: const MAX_DEPTH

(***************************************************************************)
(* syntax.rs: Expr, Primitive, Value; evaluator.rs: InterpreterError.      *)
(***************************************************************************)
Int_(n) == <<"Primitive", <<"Int", n>>>>
Bool_(b) == <<"Primitive", <<"Bool", b>>>>
Variable(name) == <<"Variable", name>>
FunctionDef(name, params, body) == <<"FunctionDef", name, params, body>>
FunctionCall(func, args) == <<"FunctionCall", func, args>>
Return(e) == <<"Return", e>>
Assignment(name, e) == <<"Assignment", name, e>>
FFIDecl(module, name, alias) == <<"FFIDecl", module, name, alias>>
InfixOp(left, op, right) == <<"InfixOp", left, op, right>>
NotationDecl(pattern, expansion) == <<"NotationDecl", pattern, expansion>>

Function(name, params, body, closure_env) ==
    <<"Function", name, params, body, closure_env>>
Ffi(name) == <<"Ffi", name>>
PartialApplication(func, args) == <<"PartialApplication", func, args>>

\* an UndefinedVariable that does not carry the name looked up
UndefinedVariable_anonymous(name) == <<"UndefinedVariable", "">>
UndefinedVariable(name) == <<"UndefinedVariable", name>>
TypeMismatch(msg) == <<"TypeMismatch", msg>>
\* an ArityMismatch whose message does not name the function
ArityMismatch_unnamed(name, expects, got) == <<"ArityMismatch", "", expects, got>>
\* format!("Function '{}' expects {} arguments, but got {}", ...): the message
\* is kept as its three arguments
ArityMismatch(name, expects, got) == <<"ArityMismatch", name, expects, got>>
FFIError(msg) == <<"FFIError", msg>>
NotReachable(msg) == <<"NotReachable", msg>>

(***************************************************************************)
(* Environment = HashMap<String, Value>.                                   *)
(***************************************************************************)
EmptyEnv == [n \in {} |-> Bool_(FALSE)]

contains_key(m, name) == name \in DOMAIN m

insert(m, name, v) ==
    [n \in DOMAIN m \cup {name} |-> IF n = name THEN v ELSE m[n]]

\* params.iter().zip(args.iter()): insert in order, a later duplicate wins
RECURSIVE bind_params(_, _, _)
bind_params(m, params, args) ==
    IF params = <<>> \/ args = <<>> THEN m
    ELSE bind_params(insert(m, Head(params), Head(args)), Tail(params), Tail(args))

(***************************************************************************)
(* ffi/mod.rs and ffi/python.rs.  A dotted path is a string; split('.')    *)
(* and join(".") are tabulated for the identifiers the model uses.         *)
(***************************************************************************)
DottedStrings ==
    {"python.math", "ruby.math", "python.math.square", "math.square"}

\* str::split('.'): the segments of a path; "" splits into one empty segment
DotSegments(s) ==
    CASE s = "python.math" -> <<"python", "math">>
      [] s = "ruby.math" -> <<"ruby", "math">>
      [] s = "python.math.square" -> <<"python", "math", "square">>
      [] s = "math.square" -> <<"math", "square">>
      [] OTHER -> <<s>>

\* [&str]::join(".")
DotJoin(parts) ==
    IF parts = <<>> THEN ""
    ELSE IF Len(parts) = 1 THEN parts[1]
    ELSE CHOOSE s \in DottedStrings : DotSegments(s) = parts

\* the files std/ffi/python/<module>.py that fs::read_to_string finds
PyModuleFiles == {"math"}

\* module.getattr(func_name): the functions the code of a module defines
PyFunctions(module) == IF module = "math" THEN {"square"} ELSE {}

\* PythonFFI::convert_to_python
convert_to_python(v) ==
    CASE v[1] = "Primitive" -> v[2]
      [] v[1] = "Function" -> <<"todo!">>
      [] OTHER -> <<"None">>

\* func.call1(py, args) for the functions of std/ffi/python/math.py
PyCall(func_name, py_args) ==
    IF func_name = "square" /\ Len(py_args) = 1 /\ py_args[1][1] = "Int"
    THEN <<"Ok", <<"Int", py_args[1][2] * py_args[1][2]>>>>
    ELSE <<"Err", "TypeError">>

\* PythonFFI::convert_from_python
convert_from_python(obj) ==
    IF obj[1] \in {"Int", "Float", "String", "Bool"}
    THEN <<"Primitive", obj>>
    ELSE Bool_(FALSE)

\* PythonFFI::load_module: read the file, run the module's code, store it
PythonFFI_load_module(pm, module_path) ==
    IF module_path \notin PyModuleFiles
    THEN [py_modules |-> pm, res |-> <<"Err", "No such file or directory">>]
    ELSE [py_modules |->
              insert(pm, module_path,
                     IF contains_key(pm, module_path)
                     THEN pm[module_path] + 1 ELSE 1),
          res |-> <<"Ok">>]

\* FFIBackend::load_module
FFIBackend_load_module(ms, pm, module_path) ==
    LET parts == DotSegments(module_path)
        language == parts[1]
        module_name == DotJoin(Tail(parts))
    IN  IF ~ (language \in ms) /\ language # "python"
        THEN [modules |-> ms, py_modules |-> pm,
              res |-> <<"Err", "Unsupported language">>]
        ELSE LET loaded == PythonFFI_load_module(pm, module_name)
             IN  [modules |-> ms \cup {language},
                  py_modules |-> loaded.py_modules,
                  res |-> loaded.res]

\* PythonFFI::call_function
PythonFFI_call_function(pm, func_path, args) ==
    LET parts == DotSegments(func_path)
        module_parts == SubSeq(parts, 1, Len(parts) - 1)
        func_name == parts[Len(parts)]
        module_path == DotJoin(module_parts)
        py_args == [i \in 1..Len(args) |-> convert_to_python(args[i])]
    IN  IF ~ contains_key(pm, module_path)
        THEN <<"Err", "Module not loaded">>
        ELSE IF func_name \notin PyFunctions(module_path)
        THEN <<"Err", "AttributeError">>
        ELSE IF \E i \in 1..Len(py_args) : py_args[i] = <<"todo!">>
        THEN <<"panic", "not yet implemented">>
        ELSE LET r == PyCall(func_name, py_args)
             IN  IF r[1] = "Ok" THEN <<"Ok", convert_from_python(r[2])>> ELSE r

\* FFIBackend::call_function
FFIBackend_call_function(ms, pm, func_path, args) ==
    LET parts == DotSegments(func_path)
        language == parts[1]
        function_path == DotJoin(Tail(parts))
    IN  IF ~ (language \in ms)
        THEN <<"Err", "Language not loaded">>
        ELSE PythonFFI_call_function(pm, function_path, args)

(***************************************************************************)
(* The expressions interpret is called with.  interpret takes any list of  *)
(* expressions; the model draws each element of the list from TopExprs as  *)
(* the for loop reaches it.                                                *)
(***************************************************************************)
Def_g == FunctionDef("g", <<"a">>, <<Variable("a")>>)
Def_f == FunctionDef("f", <<"a">>,
             <<FunctionCall(Variable("g"), <<Int_(2)>>), Variable("a")>>)
Def_k == FunctionDef("k", <<"a", "b">>, <<Variable("a")>>)
Def_h == FunctionDef("h", <<"a">>,
             <<Assignment("b", Variable("a")), Variable("b")>>)
Def_r == FunctionDef("r", <<"a">>,
             <<FunctionCall(Variable("r"), <<Variable("a")>>)>>)

\* s(a) { b = a; g(2); b }
Def_s == FunctionDef("s", <<"a">>,
             <<Assignment("b", Variable("a")),
               FunctionCall(Variable("g"), <<Int_(2)>>),
               Variable("b")>>)
\* t(a) { return a; 2 }
Def_t == FunctionDef("t", <<"a">>, <<Return(Variable("a")), Int_(2)>>)
\* u() { }
Def_u == FunctionDef("u", <<>>, <<>>)
\* p(a) { q(b) { g(2); q }; q(1) }
Def_p == FunctionDef("p", <<"a">>,
             <<FunctionDef("q", <<"b">>,
                   <<FunctionCall(Variable("g"), <<Int_(2)>>), Variable("q")>>),
               FunctionCall(Variable("q"), <<Int_(1)>>)>>)

TopExprs ==
    { Def_g, Def_f, Def_k, Def_h, Def_r, Def_s, Def_t, Def_u, Def_p,
      FunctionCall(Variable("s"), <<Int_(1)>>),
      FunctionCall(Variable("t"), <<Int_(1)>>),
      FunctionCall(Variable("u"), <<>>),
      FunctionCall(Variable("p"), <<Int_(1)>>),
      FunctionCall(Variable("k"), <<Variable("z"), Assignment("a", Int_(1))>>),
      Int_(1),
      Variable("a"),
      Assignment("a", Int_(1)),
      Return(Int_(2)),
      FunctionCall(Variable("g"), <<Int_(1)>>),
      FunctionCall(Variable("f"), <<Int_(1)>>),
      FunctionCall(Variable("h"), <<Int_(1)>>),
      FunctionCall(Variable("r"), <<Int_(1)>>),
      FunctionCall(Variable("k"), <<Int_(1)>>),
      FunctionCall(Variable("k"), <<Int_(1), Int_(2)>>),
      FunctionCall(FunctionCall(Variable("k"), <<Int_(1)>>), <<Int_(2)>>),
      FunctionCall(Variable("k"),
          <<FunctionCall(Variable("k"), <<Int_(1), Int_(2)>>), Variable("a")>>),
      FunctionCall(Variable("g"), <<Int_(1), Int_(2)>>),
      FFIDecl("python", "square", <<>>),
      FFIDecl("python.math", "square", <<>>),
      FFIDecl("python.math", "python.math.square", <<"sq">>),
      FFIDecl("ruby.math", "square", <<>>),
      FunctionCall(Variable("square"), <<Int_(5)>>),
      FunctionCall(Variable("sq"), <<Int_(5)>>),
      InfixOp(Int_(1), "+", Int_(2)),
      NotationDecl([pattern |-> "$x + $y", variables |-> <<"x", "y">>,
                    precedence |-> <<>>, associativity |-> "None"],
                   FunctionCall(Variable("add"), <<Variable("x"), Variable("y")>>)) }

(***************************************************************************)
(* The state after Interpreter::new.                                       *)
(***************************************************************************)
Init ==
    /\ env = 1
    /\ heap = <<EmptyEnv>>
    /\ stack = <<>>
    /\ ctl = <<"next">>
    /\ result = Bool_(FALSE)
    /\ pc = 0
    /\ outcome = <<"running">>
    /\ debug_mode \in BOOLEAN
    /\ depth = 0
    /\ modules = {}
    /\ py_modules = [n \in {} |-> 0]
    /\ entry = "interpret"
    /\ input = <<>>
    /\ stage = "off"
    /\ base = <<"none">>
    /\ parsed = <<"none">>
    /\ again = <<"none">>

Top == stack[Len(stack)]
Pop == SubSeq(stack, 1, Len(stack) - 1)
Push(frame) == Append(stack, frame)
ReplaceTop(frame) == Append(Pop, frame)

\* the apply_function activations of user functions that are on the Rust stack
BodyFrames == {i \in 1..Len(stack) : stack[i][1] = "apply_function"}

(***************************************************************************)
(* Interpreter::interpret: the for loop over exprs.                        *)
(***************************************************************************)
\* the loop takes the next expression of the list
interpret_next ==
    /\ ctl = <<"next">>
    /\ UNCHANGED front
    /\ pc < MaxProg
    /\ \E expr \in TopExprs : ctl' = <<"eval", expr>>
    /\ pc' = pc + 1
    /\ UNCHANGED <<env, heap, stack, result, outcome, debug_mode, depth,
                   modules, py_modules>>

\* an interpret that keeps the value of the first expression only
interpret_assign_first ==
    /\ ctl[1] = "ret"
    /\ UNCHANGED front
    /\ stack = <<>>
    /\ result' = IF pc = 1 THEN ctl[2] ELSE result
    /\ ctl' = <<"next">>
    /\ UNCHANGED <<env, heap, stack, pc, outcome, debug_mode, depth,
                   modules, py_modules>>

\* result = self.eval_expr(&expr)?  with an Ok value
interpret_assign ==
    /\ ctl[1] = "ret"
    /\ UNCHANGED front
    /\ stack = <<>>
    /\ result' = ctl[2]
    /\ ctl' = <<"next">>
    /\ UNCHANGED <<env, heap, stack, pc, outcome, debug_mode, depth,
                   modules, py_modules>>

\* result = self.eval_expr(&expr)?  with an Err: interpret returns it
interpret_err ==
    /\ ctl[1] = "err"
    /\ UNCHANGED front
    /\ stack = <<>>
    /\ outcome' = <<"Err", ctl[2]>>
    /\ ctl' = <<"halt">>
    /\ UNCHANGED <<env, heap, stack, result, pc, debug_mode, depth,
                   modules, py_modules>>

\* the list is exhausted: Ok(result)
interpret_ok ==
    /\ ctl = <<"next">>
    /\ UNCHANGED front
    /\ outcome' = <<"Ok", result>>
    /\ ctl' = <<"halt">>
    /\ UNCHANGED <<env, heap, stack, result, pc, debug_mode, depth,
                   modules, py_modules>>

(***************************************************************************)
(* Interpreter::eval_expr, one action per match arm.                       *)
(***************************************************************************)
Evaluating(kind) == ctl[1] = "eval" /\ ctl[2][1] = kind

eval_Primitive ==
    /\ Evaluating("Primitive")
    /\ UNCHANGED front
    /\ ctl' = <<"ret", <<"Primitive", ctl[2][2]>>>>
    /\ UNCHANGED <<env, heap, stack, result, pc, outcome, debug_mode, depth,
                   modules, py_modules>>

eval_Variable ==
    /\ Evaluating("Variable")
    /\ UNCHANGED front
    /\ LET name == ctl[2][2]
       IN  ctl' = IF contains_key(heap[env], name)
                  THEN <<"ret", heap[env][name]>>
                  ELSE <<"err", UndefinedVariable(name)>>
    /\ UNCHANGED <<env, heap, stack, result, pc, outcome, debug_mode, depth,
                   modules, py_modules>>

eval_FunctionDef ==
    /\ Evaluating("FunctionDef")
    /\ UNCHANGED front
    /\ LET name == ctl[2][2]
           func_value == Function(name, ctl[2][3], ctl[2][4], env)
       IN  /\ heap' = [heap EXCEPT ![env] = insert(@, name, func_value)]
           /\ ctl' = <<"ret", func_value>>
    /\ UNCHANGED <<env, stack, result, pc, outcome, debug_mode, depth,
                   modules, py_modules>>

\* let func_value = self.eval_expr(func)?;  caller_env remembers self.env
\* at the start of the call expression (it is not read by the evaluator)
eval_FunctionCall ==
    /\ Evaluating("FunctionCall")
    /\ UNCHANGED front
    /\ stack' = Push(<<"FunctionCall.func", ctl[2][3], env>>)
    /\ ctl' = <<"eval", ctl[2][2]>>
    /\ UNCHANGED <<env, heap, result, pc, outcome, debug_mode, depth,
                   modules, py_modules>>

\* the callee is a value: start args.iter().map(|arg| self.eval_expr(arg))
FunctionCall_func ==
    /\ ctl[1] = "ret"
    /\ UNCHANGED front
    /\ stack # <<>>
    /\ Top[1] = "FunctionCall.func"
    /\ LET args == Top[2]
       IN  IF args = <<>>
           THEN /\ stack' = Pop
                /\ ctl' = <<"apply", ctl[2], <<>>>>
           ELSE /\ stack' = ReplaceTop(<<"FunctionCall.args", ctl[2], <<>>,
                                         Tail(args), Top[3]>>)
                /\ ctl' = <<"eval", Head(args)>>
    /\ UNCHANGED <<env, heap, result, pc, outcome, debug_mode, depth,
                   modules, py_modules>>

\* one argument is a value: the next one, or self.apply_function(...)
FunctionCall_args ==
    /\ ctl[1] = "ret"
    /\ UNCHANGED front
    /\ stack # <<>>
    /\ Top[1] = "FunctionCall.args"
    /\ LET arg_values == Append(Top[3], ctl[2])
           rest == Top[4]
       IN  IF rest = <<>>
           THEN /\ stack' = Pop
                /\ ctl' = <<"apply", Top[2], arg_values>>
           ELSE /\ stack' = ReplaceTop(<<"FunctionCall.args", Top[2], arg_values,
                                         Tail(rest), Top[5]>>)
                /\ ctl' = <<"eval", Head(rest)>>
    /\ UNCHANGED <<env, heap, result, pc, outcome, debug_mode, depth,
                   modules, py_modules>>

\* a Return that leaves the enclosing function body early
eval_Return_exits ==
    /\ Evaluating("Return")
    /\ UNCHANGED front
    /\ ctl' = <<"eval", ctl[2][2]>>
    /\ stack' = IF stack # <<>> /\ Top[1] = "apply_function"
                THEN ReplaceTop(<<"apply_function", Top[2], Top[3], Top[4],
                                  <<>>, Top[6]>>)
                ELSE stack
    /\ UNCHANGED <<env, heap, result, pc, outcome, debug_mode, depth,
                   modules, py_modules>>

eval_Return ==
    /\ Evaluating("Return")
    /\ UNCHANGED front
    /\ ctl' = <<"eval", ctl[2][2]>>
    /\ UNCHANGED <<env, heap, stack, result, pc, outcome, debug_mode, depth,
                   modules, py_modules>>

eval_Assignment ==
    /\ Evaluating("Assignment")
    /\ UNCHANGED front
    /\ stack' = Push(<<"Assignment", ctl[2][2]>>)
    /\ ctl' = <<"eval", ctl[2][3]>>
    /\ UNCHANGED <<env, heap, result, pc, outcome, debug_mode, depth,
                   modules, py_modules>>

\* self.env.borrow_mut().insert(name.clone(), value.clone()); Ok(value)
Assignment_insert ==
    /\ ctl[1] = "ret"
    /\ UNCHANGED front
    /\ stack # <<>>
    /\ Top[1] = "Assignment"
    /\ heap' = [heap EXCEPT ![env] = insert(@, Top[2], ctl[2])]
    /\ stack' = Pop
    /\ UNCHANGED <<env, ctl, result, pc, outcome, debug_mode, depth,
                   modules, py_modules>>

\* an FFIDecl arm that binds the name before it loads the module
eval_FFIDecl_binds_first ==
    /\ Evaluating("FFIDecl")
    /\ UNCHANGED front
    /\ LET module == ctl[2][2]
           name == ctl[2][3]
           alias == ctl[2][4]
           loaded == FFIBackend_load_module(modules, py_modules, module)
           ffi_name == IF alias = <<>> THEN name ELSE alias[1]
       IN  /\ modules' = loaded.modules
           /\ py_modules' = loaded.py_modules
           /\ heap' = [heap EXCEPT ![env] = insert(@, ffi_name, Ffi(name))]
           /\ ctl' = IF loaded.res[1] = "Err"
                     THEN <<"err", FFIError(loaded.res[2])>>
                     ELSE <<"ret", Bool_(TRUE)>>
    /\ UNCHANGED <<env, stack, result, pc, outcome, debug_mode, depth>>

eval_FFIDecl ==
    /\ Evaluating("FFIDecl")
    /\ UNCHANGED front
    /\ LET module == ctl[2][2]
           name == ctl[2][3]
           alias == ctl[2][4]
           loaded == FFIBackend_load_module(modules, py_modules, module)
           ffi_name == IF alias = <<>> THEN name ELSE alias[1]
       IN  /\ modules' = loaded.modules
           /\ py_modules' = loaded.py_modules
           /\ IF loaded.res[1] = "Err"
              THEN /\ ctl' = <<"err", FFIError(loaded.res[2])>>
                   /\ heap' = heap
              ELSE /\ heap' = [heap EXCEPT ![env] = insert(@, ffi_name, Ffi(name))]
                   /\ ctl' = <<"ret", Bool_(TRUE)>>
    /\ UNCHANGED <<env, stack, result, pc, outcome, debug_mode, depth>>

eval_InfixOp ==
    /\ Evaluating("InfixOp")
    /\ UNCHANGED front
    /\ ctl' = <<"err", NotReachable("Infix operations should be handled by the parser")>>
    /\ UNCHANGED <<env, heap, stack, result, pc, outcome, debug_mode, depth,
                   modules, py_modules>>

eval_NotationDecl ==
    /\ Evaluating("NotationDecl")
    /\ UNCHANGED front
    /\ ctl' = <<"err", NotReachable("Notation declarations should be handled by the parser")>>
    /\ UNCHANGED <<env, heap, stack, result, pc, outcome, debug_mode, depth,
                   modules, py_modules>>

\* the ? operator: an Err leaves the activation below it
\* a FunctionCall that swallows a failing argument and goes on with the next
propagate_err_suppressed ==
    /\ ctl[1] = "err"
    /\ UNCHANGED front
    /\ stack # <<>>
    /\ IF Top[1] = "FunctionCall.args" /\ Top[4] # <<>>
       THEN /\ stack' = ReplaceTop(<<"FunctionCall.args", Top[2],
                                     Append(Top[3], Bool_(FALSE)),
                                     Tail(Top[4]), Top[5]>>)
            /\ ctl' = <<"eval", Head(Top[4])>>
       ELSE /\ stack' = Pop
            /\ ctl' = ctl
    /\ depth' = IF Top[1] = "apply_function" /\ debug_mode THEN depth - 1 ELSE depth
    /\ UNCHANGED <<env, heap, result, pc, outcome, debug_mode,
                   modules, py_modules>>

\* the `?` of every eval_expr and apply_function call inside eval_expr and
\* apply_function: the pending evaluation is abandoned, the error kept
propagate_err ==
    /\ ctl[1] = "err"
    /\ UNCHANGED front
    /\ stack # <<>>
    /\ stack' = Pop
    /\ depth' = IF Top[1] = "apply_function" /\ debug_mode THEN depth - 1 ELSE depth
    /\ UNCHANGED <<env, heap, ctl, result, pc, outcome, debug_mode,
                   modules, py_modules>>

(***************************************************************************)
(* debug.rs: log_entry and log_exit move the thread-local DEPTH in debug   *)
(* mode only; log_entry panics past MAX_DEPTH.                             *)
(***************************************************************************)
log_entry(d, dbg) == IF dbg THEN d + 1 ELSE d
log_entry_panics(d, dbg) == dbg /\ d + 1 > MAX_DEPTH
log_exit(d, dbg) == IF dbg THEN d - 1 ELSE d

(***************************************************************************)
(* Interpreter::apply_function.                                            *)
(***************************************************************************)
\* the parameters bound in the captured environment itself, which becomes
\* the current one (no clone, no new Rc)
enter_env_shared(h, closure_env, params, args) ==
    [heap |-> [h EXCEPT ![closure_env] = bind_params(@, params, args)],
     env |-> closure_env]

\* let mut new_env = (*closure_env).borrow().clone(); ... insert the
\* parameters ...; self.env = Rc::new(RefCell::new(new_env)):
\* the heap and the current environment after the three statements
enter_env(h, closure_env, params, args) ==
    [heap |-> Append(h, bind_params(h[closure_env], params, args)),
     env |-> Len(h) + 1]

apply_function ==
    /\ ctl[1] = "apply"
    /\ UNCHANGED front
    /\ LET func == ctl[2]
           args == ctl[3]
       IN  IF func[1] = "Function" THEN
               LET name == func[2]
                   params == func[3]
                   body == func[4]
                   closure_env == func[5]
                   entered == enter_env(heap, closure_env, params, args)
               IN  IF log_entry_panics(depth, debug_mode) THEN
                       /\ outcome' = <<"panic", "Maximum recursion depth exceeded">>
                       /\ ctl' = <<"halt">>
                       /\ UNCHANGED <<env, heap, stack, depth>>
                   ELSE IF Len(args) # Len(params) THEN
                       /\ ctl' = <<"err", ArityMismatch(name, Len(params), Len(args))>>
                       /\ depth' = log_exit(log_entry(depth, debug_mode), debug_mode)
                       /\ UNCHANGED <<env, heap, stack, outcome>>
                   ELSE IF Cardinality(BodyFrames) >= HostStackFrames THEN
                       /\ outcome' = <<"crash", "stack overflow">>
                       /\ ctl' = <<"halt">>
                       /\ UNCHANGED <<env, heap, stack, depth>>
                   ELSE
                       /\ heap' = entered.heap
                       /\ env' = entered.env
                       /\ depth' = log_entry(depth, debug_mode)
                       /\ stack' = Push(<<"apply_function", name, params, args,
                                          body, closure_env>>)
                       /\ ctl' = <<"ret", Bool_(FALSE)>>
                       /\ UNCHANGED outcome
           ELSE IF func[1] = "Ffi" THEN
               LET called == FFIBackend_call_function(modules, py_modules,
                                                      func[2], args)
               IN  IF log_entry_panics(depth, debug_mode) \/ called[1] = "panic" THEN
                       /\ outcome' = <<"panic", "ffi">>
                       /\ ctl' = <<"halt">>
                       /\ UNCHANGED <<env, heap, stack, depth>>
                   ELSE
                       /\ ctl' = IF called[1] = "Ok"
                                 THEN <<"ret", called[2]>>
                                 ELSE <<"err", FFIError(called[2])>>
                       /\ depth' = log_exit(log_entry(depth, debug_mode), debug_mode)
                       /\ UNCHANGED <<env, heap, stack, outcome>>
           ELSE IF func[1] = "PartialApplication" THEN
               /\ ctl' = <<"apply", func[2], func[3] \o args>>
               /\ UNCHANGED <<env, heap, stack, depth, outcome>>
           ELSE
               /\ ctl' = <<"err", TypeMismatch("Attempted to call a non-function value")>>
               /\ UNCHANGED <<env, heap, stack, depth, outcome>>
    /\ UNCHANGED <<result, pc, debug_mode, modules, py_modules>>

\* body.iter().try_fold(..., |_, expr| self.eval_expr(expr)): the next body
\* expression, or log_exit and Ok(result) after the last one
apply_function_body ==
    /\ ctl[1] = "ret"
    /\ UNCHANGED front
    /\ stack # <<>>
    /\ Top[1] = "apply_function"
    /\ LET rest == Top[5]
       IN  IF rest = <<>>
           THEN /\ stack' = Pop
                /\ depth' = log_exit(depth, debug_mode)
                /\ ctl' = ctl
           ELSE /\ stack' = ReplaceTop(<<"apply_function", Top[2], Top[3], Top[4],
                                         Tail(rest), Top[6]>>)
                /\ ctl' = <<"eval", Head(rest)>>
                /\ depth' = depth
    /\ UNCHANGED <<env, heap, result, pc, outcome, debug_mode, modules, py_modules>>

Next ==
    \/ interpret_next
    \/ interpret_assign
    \/ interpret_err
    \/ interpret_ok
    \/ eval_Primitive
    \/ eval_Variable
    \/ eval_FunctionDef
    \/ eval_FunctionCall
    \/ FunctionCall_func
    \/ FunctionCall_args
    \/ eval_Return
    \/ eval_Assignment
    \/ Assignment_insert
    \/ eval_FFIDecl
    \/ eval_InfixOp
    \/ eval_NotationDecl
    \/ propagate_err
    \/ apply_function
    \/ apply_function_body

Spec == Init /\ [][Next]_vars

(***************************************************************************)
(* Properties of the evaluator.                                            *)
(***************************************************************************)
\* the innermost call of a user function whose body is being evaluated
InnermostCall == stack[CHOOSE i \in BodyFrames : \A j \in BodyFrames : j <= i]

\* C1 (closure isolation): whenever a variable that names a parameter of the
\* innermost call in flight is about to be evaluated, it is bound, in the
\* current environment, to the argument that call was given.
C1_ClosureIsolation ==
    (Evaluating("Variable") /\ BodyFrames # {}) =>
        LET name == ctl[2][2]
            params == InnermostCall[3]
            args == InnermostCall[4]
        IN  \A j \in 1..Len(params) :
                params[j] = name =>
                    /\ contains_key(heap[env], name)
                    /\ heap[env][name] = args[j]

\* C2 (currying law, first half): applying a Function to fewer arguments than
\* it has parameters returns the PartialApplication of it to those arguments.
C2_CurryingLaw ==
    [][(ctl[1] = "apply" /\ ctl[2][1] = "Function"
           /\ Len(ctl[3]) < Len(ctl[2][3]))
          => ctl' = <<"ret", PartialApplication(ctl[2], ctl[3])>>]_vars

\* C3 (arguments in the caller's environment): whenever a variable that is an
\* argument of a call is about to be evaluated, the current environment binds
\* it exactly as the environment in which the call expression started does.
C3_ArgsInCallerEnv ==
    (Evaluating("Variable") /\ stack # <<>> /\ Top[1] = "FunctionCall.args") =>
        LET name == ctl[2][2]
            caller_env == Top[5]
        IN  /\ contains_key(heap[env], name) = contains_key(heap[caller_env], name)
            /\ contains_key(heap[caller_env], name) =>
                   heap[env][name] = heap[caller_env][name]

\* C4 (the captured environment is not mutated): no step of the evaluator
\* changes the bindings of the closure environment of a call in flight, and
\* the step that enters a function leaves its closure environment as it was.
C4_ClosureEnvNotMutated ==
    [][/\ \A i \in BodyFrames : heap'[stack[i][6]] = heap[stack[i][6]]
       /\ (ctl[1] = "apply" /\ ctl[2][1] = "Function")
              => heap'[ctl[2][5]] = heap[ctl[2][5]]]_vars

\* C4 witness: inside a call of h the assignment b = a has been executed in
\* the call's environment and the closure environment of h has no b.
C4_Witness ==
    /\ BodyFrames # {}
    /\ InnermostCall[2] = "h"
    /\ InnermostCall[5] = <<>>
    /\ contains_key(heap[env], "b")
    /\ contains_key(heap[env], "a")
    /\ ~ contains_key(heap[InnermostCall[6]], "b")
    /\ ~ contains_key(heap[InnermostCall[6]], "a")

\* C6 (call-depth guard): interpret never ends with the panic of log_entry
\* or with an overflow of the host stack.
C6_StackOverflowGuard ==
    /\ outcome # <<"panic", "Maximum recursion depth exceeded">>
    /\ outcome # <<"crash", "stack overflow">>

\* C8 (scenario E): evaluating `from python use square` succeeds, and applying
\* the value it binds to square to (5) returns the value of Python's square(5).
C8_ScenarioE ==
    [][/\ ctl = <<"eval", FFIDecl("python", "square", <<>>)>> => ctl'[1] = "ret"
       /\ ctl = <<"apply", Ffi("square"), <<Int_(5)>>>> => ctl' = <<"ret", Int_(25)>>]_vars

\* C9 (loading is idempotent per module): the code of a module is run at most
\* once, however many extern declarations name the module.
C9_LoadOnce ==
    \A m \in DOMAIN py_modules : py_modules[m] <= 1

\* C13: applying a Function to more arguments than it has parameters fails
\* with the ArityMismatch that names the function; no body expression is
\* evaluated and the current environment is left as it was.
C13_ArityMismatch ==
    [][(ctl[1] = "apply" /\ ctl[2][1] = "Function" /\ Len(ctl[3]) > Len(ctl[2][3]))
          => /\ ctl' = <<"err", <<"ArityMismatch", ctl[2][2], Len(ctl[2][3]), Len(ctl[3])>>>>
             /\ env' = env
             /\ heap' = heap
             /\ stack' = stack]_vars

\* C13 witness: g, of one parameter, has been applied to two arguments
C13_Witness ==
    /\ ctl[1] = "err"
    /\ ctl[2][1] = "ArityMismatch"
    /\ ctl[2][2] = "g"
    /\ ctl[2][4] > ctl[2][3]

\* C14: evaluating a Variable whose name is absent from the current
\* environment fails with UndefinedVariable carrying exactly that name, and
\* when that error reaches interpret it becomes interpret's result: no value
\* is recorded and nothing further is evaluated.
C14_UndefinedVariable ==
    [][/\ (Evaluating("Variable") /\ ~ contains_key(heap[env], ctl[2][2]))
            => /\ ctl' = <<"err", <<"UndefinedVariable", ctl[2][2]>>>>
               /\ UNCHANGED <<env, heap, stack, result>>
       /\ (ctl[1] = "err" /\ ctl[2][1] = "UndefinedVariable" /\ stack = <<>>)
            => /\ outcome' = <<"Err", ctl[2]>>
               /\ ctl' = <<"halt">>
               /\ UNCHANGED <<env, heap, result>>]_vars

\* C14 witness: interpret has returned the UndefinedVariable of a top-level
\* reference to the unbound name a
C14_Witness ==
    /\ outcome = <<"Err", <<"UndefinedVariable", "a">>>>
    /\ stack = <<>>

\* C15: interpret evaluates the top-level expressions one after the other;
\* the value it holds is false before the first expression and afterwards
\* the value of the expression evaluated last, which is what it returns at
\* the end of the list; when a top-level expression fails it returns that
\* error, and after it has returned nothing more is evaluated.
C15_InterpretInOrder ==
    [][/\ (pc = 0 /\ ctl = <<"next">>) => result = Bool_(FALSE)
       /\ (ctl[1] = "ret" /\ stack = <<>>)
            => (result' = ctl[2] /\ ctl' = <<"next">> /\ pc' = pc)
       /\ result' # result => (ctl[1] = "ret" /\ stack = <<>>)
       /\ pc' # pc => (ctl = <<"next">> /\ stack = <<>> /\ pc' = pc + 1 /\ ctl'[1] = "eval")
       /\ (ctl = <<"next">> /\ pc' = pc) => (outcome' = <<"Ok", result>> /\ ctl' = <<"halt">>)
       /\ (ctl[1] = "err" /\ stack = <<>>)
            => (outcome' = <<"Err", ctl[2]>> /\ ctl' = <<"halt">> /\ pc' = pc)
       /\ ctl = <<"halt">> => UNCHANGED vars]_vars

\* C15 witness: interpret has returned 1, the value of the last of three
\* expressions, after a definition of g and a binding of a
C15_Witness ==
    /\ outcome[1] = "Ok"
    /\ pc = 3
    /\ outcome[2] = Int_(1)
    /\ "a" \in DOMAIN heap[env]
    /\ heap[env]["a"] = Int_(1)
    /\ "g" \in DOMAIN heap[env]

\* C16: a name assigned by an expression of a function body is bound in the
\* current environment when a later expression of that same body refers to
\* it, whatever was evaluated in between (a function call included).
C16_AssignmentVisibleToSiblings ==
    (Evaluating("Variable") /\ stack # <<>> /\ Top[1] = "apply_function") =>
        \A d \in TopExprs :
            (d[1] = "FunctionDef" /\ d[2] = Top[2]) =>
                \A j \in 1..(Len(d[4]) - Len(Top[5]) - 1) :
                    (d[4][j][1] = "Assignment" /\ d[4][j][2] = ctl[2][2]) =>
                        contains_key(heap[env], ctl[2][2])

\* C17: Return transfers no control: Return(e) continues as e does, with the
\* pending evaluation untouched; a function body starts from false and, after
\* each of its expressions (a Return included), goes on to the next one, the
\* value of the last one being the call's result.
C17_ReturnNoControlTransfer ==
    [][/\ Evaluating("Return")
            => (ctl' = <<"eval", ctl[2][2]>> /\ UNCHANGED <<stack, env, heap>>)
       /\ (ctl[1] = "apply" /\ ctl[2][1] = "Function" /\ stack' # stack)
            => /\ ctl' = <<"ret", Bool_(FALSE)>>
               /\ Len(stack') = Len(stack) + 1
               /\ stack'[Len(stack')][5] = ctl[2][4]
       /\ (ctl[1] = "ret" /\ stack # <<>> /\ Top[1] = "apply_function")
            => IF Top[5] = <<>>
               THEN ctl' = ctl /\ stack' = Pop
               ELSE /\ ctl' = <<"eval", Head(Top[5])>>
                    /\ Len(stack') = Len(stack)
                    /\ stack'[Len(stack')][5] = Tail(Top[5])]_vars

\* C17 witness: the body of t, a Return followed by the literal 2, has been
\* evaluated to its end and the call's value is 2
C17_Witness ==
    /\ stack # <<>>
    /\ Top[1] = "apply_function"
    /\ Top[2] = "t"
    /\ Top[5] = <<>>
    /\ ctl = <<"ret", Int_(2)>>

\* C18: an error is forwarded, never suppressed: while an error is in flight
\* under a pending evaluation (a FunctionCall waiting for its callee or for
\* an argument, among others), the only thing that happens is that the
\* pending evaluation is abandoned with the same error; no further argument
\* is evaluated, nothing is applied, and no environment, module or result
\* changes.
C18_ErrorsForwarded ==
    [][(ctl[1] = "err" /\ stack # <<>>)
          => /\ ctl' = ctl
             /\ stack' = Pop
             /\ UNCHANGED <<env, heap, modules, py_modules, result, pc>>]_vars

\* C18 witness: the first argument of k(z, a = 1) has failed while the
\* second one is still waiting to be evaluated
C18_Witness ==
    /\ ctl = <<"err", <<"UndefinedVariable", "z">>>>
    /\ stack # <<>>
    /\ Top[1] = "FunctionCall.args"
    /\ Top[4] = <<Assignment("a", Int_(1))>>

\* C19: inside the body of a call to f, a reference to the name f (when no
\* parameter of f has that name) finds, in the current environment, the
\* Function f itself.
C19_OwnNameResolves ==
    (Evaluating("Variable") /\ BodyFrames # {} /\ ctl[2][2] = InnermostCall[2]
                            /\ \A i \in 1..Len(InnermostCall[3]) : InnermostCall[3][i] # ctl[2][2])
        => /\ contains_key(heap[env], ctl[2][2])
           /\ heap[env][ctl[2][2]][1] = "Function"
           /\ heap[env][ctl[2][2]][2] = ctl[2][2]

\* C23: a function call restores the caller's scope: whenever interpret is
\* between two top-level expressions, or holds the value of one, every call
\* has returned and the current environment is the one interpret started
\* with, the global environment.
C23_CallerScopeRestored ==
    (stack = <<>> /\ ctl[1] \in {"next", "ret"}) => env = 1

\* C26: an extern declaration either succeeds or fails with an FFI error;
\* the declaration of a module of the unsupported language ruby fails; and a
\* failing declaration leaves every environment as it was, so that neither
\* the function name nor the alias becomes bound.
C26_FailedLoadBindsNothing ==
    [][Evaluating("FFIDecl")
          => /\ ctl'[1] \in {"ret", "err"}
             /\ ctl[2][2] = "ruby.math" => ctl'[1] = "err"
             /\ ctl'[1] = "err"
                   => /\ ctl'[2][1] = "FFIError"
                      /\ UNCHANGED <<heap, env, stack, result>>]_vars

\* C26 witness: interpret has returned the FFI error of a declaration from
\* ruby.math, and square is not bound
C26_Witness ==
    /\ outcome = <<"Err", <<"FFIError", "Unsupported language">>>>
    /\ ~ contains_key(heap[env], "square")

(***************************************************************************)
(* parser/base.rs: the grammar, over the source text as a sequence of      *)
(* one-character strings.  A parser takes the text s and a start index i   *)
(* and returns [st, pos, val]: st is "ok" (pos is the index after what it  *)
(* consumed, val the output), "err" (nom's recoverable Err::Error) or      *)
(* "panic" (an unwrap or panic! inside a map closure).                     *)
(***************************************************************************)
Ok(p, v) == [st |-> "ok", pos |-> p, val |-> v]
Err(p) == [st |-> "err", pos |-> p, val |-> <<>>]
Panic(p) == [st |-> "panic", pos |-> p, val |-> <<>>]

Alpha == {"a", "b", "c", "d", "e", "f", "g", "h", "i", "j", "k", "l", "m",
          "n", "o", "p", "q", "r", "s", "t", "u", "v", "w", "x", "y", "z",
          "A", "B", "C", "D", "E", "F", "G", "H", "I", "J", "K", "L", "M",
          "N", "O", "P", "Q", "R", "S", "T", "U", "V", "W", "X", "Y", "Z"}
Digit == {"0", "1", "2", "3", "4", "5", "6", "7", "8", "9"}
Space == {" ", "\t", "\n", "\r"}
IdentStart == Alpha \cup {"_", "."}
IdentChar == Alpha \cup Digit \cup {"_", "."}
OpChar == {"!", "@", "#", "$", "%", "^", "&", "*", "-", "+", "=", "|", "<",
           ">", "?", "/", ":", "~"}

\* char(c) / one_of at index i
IsChar(s, i, c) == i <= Len(s) /\ s[i] = c
InClass(s, i, C) == i <= Len(s) /\ s[i] \in C

\* tag(t) at index i
StartsWith(s, i, t) ==
    /\ i + Len(t) - 1 <= Len(s)
    /\ \A j \in 1..Len(t) : s[i + j - 1] = t[j]

\* the index after the longest run of characters of C that starts at i
RECURSIVE SpanEnd(_, _, _)
SpanEnd(s, i, C) == IF InClass(s, i, C) THEN SpanEnd(s, i + 1, C) ELSE i

\* take_until(t): the first index >= i where t starts, 0 when there is none
RECURSIVE FindFrom(_, _, _)
FindFrom(s, i, t) ==
    IF i + Len(t) - 1 > Len(s) THEN 0
    ELSE IF StartsWith(s, i, t) THEN i
    ELSE FindFrom(s, i + 1, t)

\* the String of a run of characters
RECURSIVE Str(_)
Str(cs) == IF cs = <<>> THEN "" ELSE cs[1] \o Str(Tail(cs))

\* ws: many0 of multispace1, a // comment up to (not including) the next
\* newline, or a /* */ comment; it never fails
RECURSIVE ws(_, _)
ws(s, i) ==
    IF InClass(s, i, Space) THEN ws(s, SpanEnd(s, i, Space))
    ELSE IF StartsWith(s, i, <<"/", "/">>) /\ FindFrom(s, i + 2, <<"\n">>) # 0
    THEN ws(s, FindFrom(s, i + 2, <<"\n">>))
    ELSE IF StartsWith(s, i, <<"/", "*">>) /\ FindFrom(s, i + 2, <<"*", "/">>) # 0
    THEN ws(s, FindFrom(s, i + 2, <<"*", "/">>) + 2)
    ELSE i

\* str::parse::<i64>: the digits without leading zeros, and the test that
\* the number they write lies outside the 64-bit range
RECURSIVE StripZeros(_)
StripZeros(ds) ==
    IF Len(ds) > 1 /\ ds[1] = "0" THEN StripZeros(Tail(ds)) ELSE ds

DigitValue(c) ==
    CASE c = "0" -> 0 [] c = "1" -> 1 [] c = "2" -> 2 [] c = "3" -> 3
      [] c = "4" -> 4 [] c = "5" -> 5 [] c = "6" -> 6 [] c = "7" -> 7
      [] c = "8" -> 8 [] c = "9" -> 9

I64MaxDigits == <<"9", "2", "2", "3", "3", "7", "2", "0", "3", "6", "8", "5",
                  "4", "7", "7", "5", "8", "0", "7">>
I64MinDigits == <<"9", "2", "2", "3", "3", "7", "2", "0", "3", "6", "8", "5",
                  "4", "7", "7", "5", "8", "0", "8">>

\* a > b for two digit strings of the same length
RECURSIVE DigitsGreater(_, _)
DigitsGreater(a, b) ==
    IF a = <<>> THEN FALSE
    ELSE IF a[1] # b[1] THEN DigitValue(a[1]) > DigitValue(b[1])
    ELSE DigitsGreater(Tail(a), Tail(b))

i64_overflows(negative, ds) ==
    LET sd == StripZeros(ds)
    IN  \/ Len(sd) > Len(I64MaxDigits)
        \/ /\ Len(sd) = Len(I64MaxDigits)
           /\ DigitsGreater(sd, IF negative THEN I64MinDigits ELSE I64MaxDigits)

RECURSIVE DigitsValue(_, _)
DigitsValue(ds, acc) ==
    IF ds = <<>> THEN acc
    ELSE DigitsValue(Tail(ds), 10 * acc + DigitValue(ds[1]))

\* parse_int: recognize(pair(opt(char('-')), digit1)) mapped by parse().unwrap()
parse_int(s, i) ==
    LET negative == IsChar(s, i, "-")
        j0 == IF negative THEN i + 1 ELSE i
        j == SpanEnd(s, j0, Digit)
        ds == SubSeq(s, j0, j - 1)
    IN  IF j = j0 THEN Err(i)
        ELSE IF i64_overflows(negative, ds) THEN Panic(i)
        ELSE Ok(j, IF negative THEN 0 - DigitsValue(ds, 0) ELSE DigitsValue(ds, 0))

\* parse_float: -?digits.digits([eE][+-]?digits)?; the output stands for the
\* f64 the recognized text denotes
parse_float(s, i) ==
    LET j0 == IF IsChar(s, i, "-") THEN i + 1 ELSE i
        j1 == SpanEnd(s, j0, Digit)
        j2 == SpanEnd(s, j1 + 1, Digit)
        e0 == IF InClass(s, j2 + 1, {"+", "-"}) THEN j2 + 2 ELSE j2 + 1
        e1 == SpanEnd(s, e0, Digit)
        j3 == IF InClass(s, j2, {"e", "E"}) /\ e1 > e0 THEN e1 ELSE j2
    IN  IF j1 = j0 \/ ~ IsChar(s, j1, ".") \/ j2 = j1 + 1 THEN Err(i)
        ELSE Ok(j3, Str(SubSeq(s, i, j3 - 1)))

\* parse_string: the chunks between the quotes, escapes decoded
RECURSIVE string_chunks(_, _, _)
string_chunks(s, i, acc) ==
    IF i <= Len(s) /\ s[i] # "\"" /\ s[i] # "\\"
    THEN string_chunks(s, i + 1, acc \o s[i])
    ELSE IF StartsWith(s, i, <<"\\", "\"">>) THEN string_chunks(s, i + 2, acc \o "\"")
    ELSE IF StartsWith(s, i, <<"\\", "\\">>) THEN string_chunks(s, i + 2, acc \o "\\")
    ELSE IF StartsWith(s, i, <<"\\", "n">>) THEN string_chunks(s, i + 2, acc \o "\n")
    ELSE IF StartsWith(s, i, <<"\\", "r">>) THEN string_chunks(s, i + 2, acc \o "\r")
    ELSE IF StartsWith(s, i, <<"\\", "t">>) THEN string_chunks(s, i + 2, acc \o "\t")
    ELSE Ok(i, acc)

parse_string(s, i) ==
    IF ~ IsChar(s, i, "\"") THEN Err(i)
    ELSE LET body == string_chunks(s, i + 1, "")
         IN  IF IsChar(s, body.pos, "\"") THEN Ok(body.pos + 1, body.val)
             ELSE Err(body.pos)

parse_bool(s, i) ==
    IF StartsWith(s, i, <<"t", "r", "u", "e">>) THEN Ok(i + 4, TRUE)
    ELSE IF StartsWith(s, i, <<"f", "a", "l", "s", "e">>) THEN Ok(i + 5, FALSE)
    ELSE Err(i)

\* parse_identifier: recognize(pair(alt((alpha1, "_", ".")), many0(...)))
parse_identifier(s, i) ==
    IF ~ InClass(s, i, IdentStart) THEN Err(i)
    ELSE LET j == SpanEnd(s, i, IdentChar)
         IN  Ok(j, Str(SubSeq(s, i, j - 1)))

\* parse_variable: the same run, as Expr::Variable
parse_variable(s, i) ==
    LET id == parse_identifier(s, i)
    IN  IF id.st = "ok" THEN Ok(id.pos, Variable(id.val)) ELSE id

\* delimited(ws, char(c), ws)
ws_char_ws(s, i, c) ==
    LET j == ws(s, i)
    IN  IF IsChar(s, j, c) THEN Ok(ws(s, j + 1), c) ELSE Err(j)

\* delimited(ws, tag(t), ws)
ws_tag_ws(s, i, t) ==
    LET j == ws(s, i)
    IN  IF StartsWith(s, j, t) THEN Ok(ws(s, j + Len(t)), t) ELSE Err(j)

\* delimited(ws, opt(char(';')), ws)
ws_opt_semicolon_ws(s, i) ==
    LET j == ws(s, i)
    IN  IF IsChar(s, j, ";") THEN ws(s, j + 1) ELSE j

\* separated_list0(delimited(ws, char(','), ws), parse_variable)
RECURSIVE variable_list_rest(_, _, _)
variable_list_rest(s, i, acc) ==
    LET sep == ws_char_ws(s, i, ",")
        v == parse_variable(s, sep.pos)
    IN  IF sep.st # "ok" \/ v.st # "ok" THEN Ok(i, acc)
        ELSE variable_list_rest(s, v.pos, Append(acc, v.val))

variable_list(s, i) ==
    LET v == parse_variable(s, i)
    IN  IF v.st # "ok" THEN Ok(i, <<>>)
        ELSE variable_list_rest(s, v.pos, <<v.val>>)

\* parse_infix_op: recognize(many1(one_of("!@#$%^&*-+=|<>?/:~")))
parse_infix_op(s, i) ==
    LET j == SpanEnd(s, i, OpChar)
    IN  IF j = i THEN Err(i) ELSE Ok(j, Str(SubSeq(s, i, j - 1)))

\* the combinators: a parser's result handed to what follows it (a failure
\* or a panic ends the sequence), nom's alt, opt, value, tag and char
and_then(r, K(_)) == IF r.st = "ok" THEN K(r) ELSE r
Let(v, K(_)) == K(v)
alt(a, b) == IF a.st = "err" THEN b ELSE a
opt(r, i) == IF r.st = "err" THEN Ok(i, <<>>) ELSE and_then(r, LAMBDA x : Ok(x.pos, <<x.val>>))
value(v, r) == and_then(r, LAMBDA x : Ok(x.pos, v))
tag(s, i, t) == IF StartsWith(s, i, t) THEN Ok(i + Len(t), t) ELSE Err(i)
char(s, i, c) == IF IsChar(s, i, c) THEN Ok(i + 1, c) ELSE Err(i)

RECURSIVE parse_expr(_, _)
RECURSIVE expr_list_rest(_, _, _)
RECURSIVE body_exprs(_, _, _)
RECURSIVE infix_rest(_, _, _)

\* separated_list0(delimited(ws, char(','), ws), parse_expr): an element
\* that fails after a separator gives the list back from before the separator
expr_list_rest(s, i, acc) ==
    Let(ws_char_ws(s, i, ","), LAMBDA sep :
        IF sep.st # "ok" THEN Ok(i, acc)
        ELSE Let(parse_expr(s, sep.pos), LAMBDA e :
                 IF e.st = "panic" THEN e
                 ELSE IF e.st = "err" THEN Ok(i, acc)
                 ELSE expr_list_rest(s, e.pos, Append(acc, e.val))))

expr_list(s, i) ==
    Let(parse_expr(s, i), LAMBDA e :
        IF e.st = "panic" THEN e
        ELSE IF e.st = "err" THEN Ok(i, <<>>)
        ELSE expr_list_rest(s, e.pos, <<e.val>>))

\* parse_array: '[' the list ']'
parse_array(s, i) ==
    and_then(char(s, i, "["), LAMBDA open :
    and_then(expr_list(s, open.pos), LAMBDA l :
    and_then(char(s, l.pos, "]"), LAMBDA close : Ok(close.pos, l.val))))

\* map(p, Primitive::V) then Expr::Primitive
map_Primitive(r, variant) ==
    and_then(r, LAMBDA p : Ok(p.pos, <<"Primitive", <<variant, p.val>>>>))

\* parse_primitive: alt((float, int, string, bool, array))
parse_primitive(s, i) ==
    alt(map_Primitive(parse_float(s, i), "Float"),
    alt(map_Primitive(parse_int(s, i), "Int"),
    alt(map_Primitive(parse_string(s, i), "String"),
    alt(map_Primitive(parse_bool(s, i), "Bool"),
        map_Primitive(parse_array(s, i), "Array")))))

\* parse_assignment: tuple((parse_variable, delimited(ws, char('='), ws), parse_expr))
parse_assignment(s, i) ==
    and_then(parse_variable(s, i), LAMBDA var :
    and_then(ws_char_ws(s, var.pos, "="), LAMBDA eq :
    and_then(parse_expr(s, eq.pos), LAMBDA expr :
        Ok(expr.pos, Assignment(var.val[2], expr.val)))))

\* many0(terminated(parse_expr, delimited(ws, opt(char(';')), ws)))
body_exprs(s, i, acc) ==
    Let(parse_expr(s, i), LAMBDA e :
        IF e.st = "panic" THEN e
        ELSE IF e.st = "err" THEN Ok(i, acc)
        ELSE body_exprs(s, ws_opt_semicolon_ws(s, e.pos), Append(acc, e.val)))

\* parse_function_def: opt(tag("fn")), ws, the name, the parameters between
\* parentheses, the body expressions between braces
parse_function_def(s, i) ==
    and_then(parse_variable(s, ws(s, opt(tag(s, i, <<"f", "n">>), i).pos)), LAMBDA name :
    and_then(char(s, name.pos, "("), LAMBDA lp :
    and_then(variable_list(s, lp.pos), LAMBDA params :
    and_then(char(s, params.pos, ")"), LAMBDA rp :
    and_then(ws_char_ws(s, rp.pos, "{"), LAMBDA open :
    and_then(body_exprs(s, open.pos, <<>>), LAMBDA body :
    and_then(ws_char_ws(s, body.pos, "}"), LAMBDA close :
        Ok(close.pos,
           FunctionDef(name.val[2],
                       [k \in 1..Len(params.val) |-> params.val[k][2]],
                       body.val)))))))))

\* parse_function_call: pair(parse_variable, delimited('(', the list, ')'))
parse_function_call(s, i) ==
    and_then(parse_variable(s, i), LAMBDA func :
    and_then(char(s, func.pos, "("), LAMBDA lp :
    and_then(expr_list(s, lp.pos), LAMBDA args :
    and_then(char(s, args.pos, ")"), LAMBDA rp :
        Ok(rp.pos, FunctionCall(func.val, args.val))))))

\* parse_return: preceded(pair(tag("return"), ws), parse_expr)
parse_return(s, i) ==
    and_then(tag(s, i, <<"r", "e", "t", "u", "r", "n">>), LAMBDA kw :
    and_then(parse_expr(s, ws(s, kw.pos)), LAMBDA expr :
        Ok(expr.pos, Return(expr.val))))

\* parse_term: delimited(ws, alt((primitive, call, variable, '(' expr ')')), ws)
parse_term(s, i) ==
    Let(ws(s, i), LAMBDA j :
    and_then(alt(parse_primitive(s, j),
             alt(parse_function_call(s, j),
             alt(parse_variable(s, j),
                 and_then(char(s, j, "("), LAMBDA lp :
                 and_then(parse_expr(s, lp.pos), LAMBDA e :
                 and_then(char(s, e.pos, ")"), LAMBDA rp : Ok(rp.pos, e.val))))))),
             LAMBDA t : Ok(ws(s, t.pos), t.val)))

\* a fold to the right: acc op (the fold of everything after op)
RECURSIVE infix_rest_right(_, _, _)
infix_rest_right(s, i, acc) ==
    Let(parse_infix_op(s, ws(s, i)), LAMBDA op :
        IF op.st # "ok" THEN Ok(i, acc)
        ELSE Let(parse_term(s, ws(s, op.pos)), LAMBDA term :
                 IF term.st = "panic" THEN term
                 ELSE IF term.st = "err" THEN Ok(i, acc)
                 ELSE Let(infix_rest_right(s, term.pos, term.val), LAMBDA rest :
                          IF rest.st # "ok" THEN rest
                          ELSE Ok(rest.pos, InfixOp(acc, op.val, rest.val)))))

\* many0(tuple((delimited(ws, parse_infix_op, ws), parse_term))) folded to
\* the left: acc becomes InfixOp(acc, op, term)
infix_rest(s, i, acc) ==
    Let(parse_infix_op(s, ws(s, i)), LAMBDA op :
        IF op.st # "ok" THEN Ok(i, acc)
        ELSE Let(parse_term(s, ws(s, op.pos)), LAMBDA term :
                 IF term.st = "panic" THEN term
                 ELSE IF term.st = "err" THEN Ok(i, acc)
                 ELSE infix_rest(s, term.pos, InfixOp(acc, op.val, term.val))))

\* parse_infix_expr
parse_infix_expr(s, i) ==
    and_then(parse_term(s, i), LAMBDA first_term :
        infix_rest(s, first_term.pos, first_term.val))

\* parse_expr: delimited(ws, alt((function_def, assignment, return, infix)), ws)
parse_expr(s, i) ==
    Let(ws(s, i), LAMBDA j :
    and_then(alt(parse_function_def(s, j),
             alt(parse_assignment(s, j),
             alt(parse_return(s, j),
                 parse_infix_expr(s, j)))),
             LAMBDA e : Ok(ws(s, e.pos), e.val)))

\* `p as i32` of parse_notation_pattern.  Every integer the model holds lies
\* within the 32-bit range, where the cast changes nothing.
as_i32(p) == p

\* parse_notation_pattern: the quoted pattern, then the optional with list,
\* precedence and associativity
parse_notation_pattern(s, i) ==
    and_then(char(s, i, "\""), LAMBDA quote :
    Let(FindFrom(s, quote.pos, <<"\"">>), LAMBDA close :
        IF close = 0 THEN Err(quote.pos)
        ELSE
    and_then(opt(and_then(ws_tag_ws(s, close + 1, <<"w", "i", "t", "h">>),
                          LAMBDA kw : variable_list(s, kw.pos)),
                 close + 1), LAMBDA variables :
    and_then(opt(and_then(ws_tag_ws(s, variables.pos,
                                    <<"p", "r", "e", "c", "e", "d", "e", "n", "c", "e">>),
                          LAMBDA kw : parse_int(s, kw.pos)),
                 variables.pos), LAMBDA precedence :
    and_then(opt(and_then(ws_tag_ws(s, precedence.pos,
                                    <<"a", "s", "s", "o", "c", "i", "a", "t", "i", "v",
                                      "i", "t", "y">>),
                          LAMBDA kw :
                              alt(value("Left", tag(s, kw.pos, <<"l", "e", "f", "t">>)),
                              alt(value("Right", tag(s, kw.pos, <<"r", "i", "g", "h", "t">>)),
                                  value("None", tag(s, kw.pos, <<"n", "o", "n", "e">>))))),
                 precedence.pos), LAMBDA associativity :
        Ok(associativity.pos,
           [pattern |-> Str(SubSeq(s, quote.pos, close - 1)),
            variables |-> IF variables.val = <<>> THEN <<>>
                          ELSE [k \in 1..Len(variables.val[1]) |-> variables.val[1][k][2]],
            precedence |-> [k \in 1..Len(precedence.val) |-> as_i32(precedence.val[k])],
            associativity |-> IF associativity.val = <<>> THEN "None"
                              ELSE associativity.val[1]]))))))

\* parse_notation_decl: "notation" ws pattern, ws ":=" ws, parse_expr
parse_notation_decl(s, i) ==
    and_then(tag(s, i, <<"n", "o", "t", "a", "t", "i", "o", "n">>), LAMBDA kw :
    and_then(parse_notation_pattern(s, ws(s, kw.pos)), LAMBDA pattern :
    and_then(ws_tag_ws(s, pattern.pos, <<":", "=">>), LAMBDA def :
    and_then(parse_expr(s, def.pos), LAMBDA expansion :
        Ok(expansion.pos, NotationDecl(pattern.val, expansion.val))))))

\* parse_ffi_decl: "from" ws module, ws "use" ws name, opt(ws "as" ws alias)
parse_ffi_decl(s, i) ==
    and_then(tag(s, i, <<"f", "r", "o", "m">>), LAMBDA kw :
    and_then(parse_identifier(s, ws(s, kw.pos)), LAMBDA module :
    and_then(ws_tag_ws(s, module.pos, <<"u", "s", "e">>), LAMBDA use :
    and_then(parse_identifier(s, use.pos), LAMBDA name :
    and_then(opt(and_then(ws_tag_ws(s, name.pos, <<"a", "s">>),
                          LAMBDA as : parse_identifier(s, as.pos)),
                 name.pos), LAMBDA alias :
        Ok(alias.pos, FFIDecl(module.val, name.val, alias.val)))))))

\* parse_top_level_expr: alt((ffi_decl, notation_decl,
\*     terminated(parse_expr, delimited(ws, opt(char(';')), ws))))
parse_top_level_expr(s, i) ==
    alt(parse_ffi_decl(s, i),
    alt(parse_notation_decl(s, i),
        and_then(parse_expr(s, i), LAMBDA e :
            Ok(ws_opt_semicolon_ws(s, e.pos), e.val))))

\* many1(parse_top_level_expr): at least one; it stops at the first failure
RECURSIVE top_level_rest(_, _, _)
top_level_rest(s, i, acc) ==
    Let(parse_top_level_expr(s, i), LAMBDA e :
        IF e.st = "panic" THEN e
        ELSE IF e.st = "err" THEN Ok(i, acc)
        ELSE top_level_rest(s, e.pos, Append(acc, e.val)))

top_level_exprs(s, i) ==
    and_then(parse_top_level_expr(s, i), LAMBDA e :
        top_level_rest(s, e.pos, <<e.val>>))

\* delimited(ws, many1(parse_top_level_expr), ws)
program_body(s) ==
    and_then(top_level_exprs(s, ws(s, 1)), LAMBDA l : Ok(ws(s, l.pos), l.val))

\* all_consuming: an Ok that leaves input behind becomes an error
all_consuming_partial(s, r) == r

all_consuming(s, r) ==
    IF r.st = "ok" /\ r.pos <= Len(s) THEN Err(r.pos) ELSE r

\* base::parse_program
parse_base_program(s) == all_consuming(s, program_body(s))

(***************************************************************************)
(* parser/notation.rs: the notation expander.                              *)
(***************************************************************************)
\* match_pattern: an InfixOp whose operator op makes "$x op $y" the pattern
\* text; the operands are bound to the names x and y
match_pattern(expr, pattern) ==
    expr[1] = "InfixOp" /\ pattern.pattern = ("$x " \o expr[3]) \o " $y"

bindings_of(expr) == [name \in {"x", "y"} |-> IF name = "x" THEN expr[2] ELSE expr[4]]

\* a substitution that substitutes again inside an inserted operand
RECURSIVE expand_notation_resubstituted(_, _)
expand_notation_resubstituted(expansion, bindings) ==
    IF expansion[1] = "Variable"
    THEN IF expansion[2] \in DOMAIN bindings
         THEN LET operand == bindings[expansion[2]]
              IN  IF operand[1] = "Variable" /\ operand[2] \in DOMAIN bindings
                  THEN bindings[operand[2]]
                  ELSE operand
         ELSE expansion
    ELSE IF expansion[1] = "FunctionCall"
    THEN FunctionCall(expand_notation_resubstituted(expansion[2], bindings),
                      [k \in 1..Len(expansion[3]) |->
                          expand_notation_resubstituted(expansion[3][k], bindings)])
    ELSE IF expansion[1] = "InfixOp"
    THEN InfixOp(expand_notation_resubstituted(expansion[2], bindings), expansion[3],
                 expand_notation_resubstituted(expansion[4], bindings))
    ELSE expansion

\* expand_notation: the template with its variables replaced by the bindings
RECURSIVE expand_notation(_, _)
expand_notation(expansion, bindings) ==
    IF expansion[1] = "Variable"
    THEN IF expansion[2] \in DOMAIN bindings THEN bindings[expansion[2]] ELSE expansion
    ELSE IF expansion[1] = "FunctionCall"
    THEN FunctionCall(expand_notation(expansion[2], bindings),
                      [k \in 1..Len(expansion[3]) |->
                          expand_notation(expansion[3][k], bindings)])
    ELSE IF expansion[1] = "InfixOp"
    THEN InfixOp(expand_notation(expansion[2], bindings), expansion[3],
                 expand_notation(expansion[4], bindings))
    ELSE expansion

\* a loop that goes on after a match, so that the last matching notation wins
RECURSIVE last_match(_, _)
last_match(expanded, notations) ==
    IF notations = <<>> THEN expanded
    ELSE IF match_pattern(expanded, notations[Len(notations)][2])
    THEN expand_notation(notations[Len(notations)][3], bindings_of(expanded))
    ELSE last_match(expanded, SubSeq(notations, 1, Len(notations) - 1))

\* the for loop of expand_expr: the first notation, in declaration order,
\* whose pattern matches
RECURSIVE first_match(_, _)
first_match(expanded, notations) ==
    IF notations = <<>> THEN expanded
    ELSE IF match_pattern(expanded, notations[1][2])
    THEN expand_notation(notations[1][3], bindings_of(expanded))
    ELSE first_match(expanded, Tail(notations))

\* an expand_expr that scans the result of an expansion once more
RECURSIVE expand_expr_rescanned(_, _)
expand_expr_rescanned(expr, notations) ==
    LET expanded ==
            IF expr[1] = "FunctionDef"
            THEN FunctionDef(expr[2], expr[3],
                             [k \in 1..Len(expr[4]) |-> expand_expr_rescanned(expr[4][k], notations)])
            ELSE IF expr[1] = "FunctionCall"
            THEN FunctionCall(expand_expr_rescanned(expr[2], notations),
                              [k \in 1..Len(expr[3]) |-> expand_expr_rescanned(expr[3][k], notations)])
            ELSE IF expr[1] = "Return"
            THEN Return(expand_expr_rescanned(expr[2], notations))
            ELSE IF expr[1] = "Assignment"
            THEN Assignment(expr[2], expand_expr_rescanned(expr[3], notations))
            ELSE IF expr[1] = "InfixOp"
            THEN InfixOp(expand_expr_rescanned(expr[2], notations), expr[3],
                         expand_expr_rescanned(expr[4], notations))
            ELSE expr
    IN  first_match(first_match(expanded, notations), notations)

\* expand_expr: the children first, then the notations on the node itself
RECURSIVE expand_expr(_, _)
expand_expr(expr, notations) ==
    LET expanded ==
            IF expr[1] = "FunctionDef"
            THEN FunctionDef(expr[2], expr[3],
                             [k \in 1..Len(expr[4]) |-> expand_expr(expr[4][k], notations)])
            ELSE IF expr[1] = "FunctionCall"
            THEN FunctionCall(expand_expr(expr[2], notations),
                              [k \in 1..Len(expr[3]) |-> expand_expr(expr[3][k], notations)])
            ELSE IF expr[1] = "Return"
            THEN Return(expand_expr(expr[2], notations))
            ELSE IF expr[1] = "Assignment"
            THEN Assignment(expr[2], expand_expr(expr[3], notations))
            ELSE IF expr[1] = "InfixOp"
            THEN InfixOp(expand_expr(expr[2], notations), expr[3],
                         expand_expr(expr[4], notations))
            ELSE expr
    IN  first_match(expanded, notations)

\* partition of apply_notations
is_notation_decl(expr) == expr[1] = "NotationDecl"

\* apply_notations: the declarations are taken out of the program and every
\* other expression is expanded with them
apply_notations(ast) ==
    LET notations == SelectSeq(ast, is_notation_decl)
        is_expression(expr) == ~ is_notation_decl(expr)
        expressions == SelectSeq(ast, is_expression)
    IN  [k \in 1..Len(expressions) |-> expand_expr(expressions[k], notations)]

(***************************************************************************)
(* The front end as a state machine: parser::parse_program on a source     *)
(* text, or apply_notations on a program built by the caller.              *)
(***************************************************************************)
MaxLexemes == 3
MaxNotations == 2
MaxRawExprs == 1

Lexemes ==
    {<<"1">>, <<"f">>, <<"(", "a", ")">>, <<"{", "a", "}">>, <<" ">>, <<")">>,
     <<"+">>, <<"=">>, <<"/", "*", "c", "*", "/">>}

RECURSIVE Texts(_)
Texts(n) ==
    IF n = 0 THEN {<<>>}
    ELSE LET T == Texts(n - 1) IN T \cup {t \o l : t \in T, l \in Lexemes}

\* notation "$x plus $y" with x, y := add(x, y)   1 plus 2
ScenarioA ==
    <<"n", "o", "t", "a", "t", "i", "o", "n", " ", "\"", "$", "x", " ",
      "p", "l", "u", "s", " ", "$", "y", "\"", " ", "w", "i", "t", "h",
      " ", "x", ",", " ", "y", " ", ":", "=", " ", "a", "d", "d", "(",
      "x", ",", " ", "y", ")", "\n", "1", " ", "p", "l", "u", "s", " ",
      "2">>

\* one more than the largest i64
OverflowText ==
    <<"9", "2", "2", "3", "3", "7", "2", "0", "3", "6", "8", "5", "4",
      "7", "7", "5", "8", "0", "8">>

\* programs written as lists of adjacent syntactic units: f(1), f(), 1+2,
\* a=1, g(a){a}, [1,2]
UnitPrograms ==
    {<<<<"f">>, <<"(">>, <<"1">>, <<")">>>>,
     <<<<"f">>, <<"(">>, <<")">>>>,
     <<<<"1">>, <<"+">>, <<"2">>>>,
     <<<<"a">>, <<"=">>, <<"1">>>>,
     <<<<"g">>, <<"(">>, <<"a">>, <<")">>, <<"{">>, <<"a">>, <<"}">>>>,
     <<<<"[">>, <<"1">>, <<",">>, <<"2">>, <<"]">>>>}

\* what may stand between two units: a blank, a block comment, a line
\* comment with its newline; and a line comment that ends the input
Fillers ==
    {<<" ">>, <<"/", "*", "c", "*", "/">>, <<"/", "/", "c", "\n">>}
LastLineComment == <<"/", "/", "c">>
FillersAt(units, k) ==
    IF k = Len(units) THEN Fillers \cup {LastLineComment} ELSE Fillers

RECURSIVE Join(_)
Join(units) == IF units = <<>> THEN <<>> ELSE units[1] \o Join(Tail(units))

\* the text of the units with a filler after the k-th one
Insert(units, k, filler) ==
    (Join(SubSeq(units, 1, k)) \o filler) \o Join(SubSeq(units, k + 1, Len(units)))

SpacedTexts ==
    UNION {UNION {{Insert(u, k, f) : f \in FillersAt(u, k)} : k \in 1..Len(u)} :
           u \in UnitPrograms}

\* operands and operators of the infix texts: t0 op1 t1 and t0 op1 t1 op2 t2,
\* written with one blank between neighbours
InfixTerms == {<<"1">>, <<"a">>}
InfixOps == {<<"+">>, <<"*">>, <<"=">>, <<"=", "=">>}

\* notation "$x + $y" with x, y precedence 1 associativity right := add(x, y)
\* notation "$x * $y" with x, y precedence 9 associativity left := mul(x, y)
PrecedenceDecls ==
    <<"n", "o", "t", "a", "t", "i", "o", "n", " ", "\"", "$", "x", " ",
      "+", " ", "$", "y", "\"", " ", "w", "i", "t", "h", " ", "x", ",",
      " ", "y", " ", "p", "r", "e", "c", "e", "d", "e", "n", "c", "e",
      " ", "1", " ", "a", "s", "s", "o", "c", "i", "a", "t", "i", "v",
      "i", "t", "y", " ", "r", "i", "g", "h", "t", " ", ":", "=", " ",
      "a", "d", "d", "(", "x", ",", " ", "y", ")", "\n", "n", "o", "t",
      "a", "t", "i", "o", "n", " ", "\"", "$", "x", " ", "*", " ", "$",
      "y", "\"", " ", "w", "i", "t", "h", " ", "x", ",", " ", "y", " ",
      "p", "r", "e", "c", "e", "d", "e", "n", "c", "e", " ", "9", " ",
      "a", "s", "s", "o", "c", "i", "a", "t", "i", "v", "i", "t", "y",
      " ", "l", "e", "f", "t", " ", ":", "=", " ", "m", "u", "l", "(",
      "x", ",", " ", "y", ")", "\n">>

InfixTexts ==
    {p \o Join(<<t0, <<" ">>, o1, <<" ">>, t1>>) :
        p \in {<<>>, PrecedenceDecls}, t0 \in InfixTerms, o1 \in InfixOps,
        t1 \in InfixTerms}
    \cup
    {p \o Join(<<t0, <<" ">>, o1, <<" ">>, t1, <<" ">>, o2, <<" ">>, t2>>) :
        p \in {<<>>, PrecedenceDecls}, t0 \in InfixTerms, o1 \in InfixOps,
        t1 \in InfixTerms, o2 \in InfixOps, t2 \in InfixTerms}

\* names of the function definitions  name(a){a}
FunctionNames == {<<"g">>, <<"f", "o", "o">>, <<"f", "n", "o", "r", "d">>}

SourceTexts ==
    Texts(MaxLexemes) \cup {ScenarioA, OverflowText} \cup SpacedTexts \cup InfixTexts
        \cup {n \o <<"(", "a", ")", "{", "a", "}">> : n \in FunctionNames}

InfixPattern(op) ==
    [pattern |-> ("$x " \o op) \o " $y", variables |-> <<"x", "y">>,
     precedence |-> <<>>, associativity |-> "None"]

\* notation "$a + $b" with a, b := add(a, b)
Notation_ab ==
    NotationDecl([pattern |-> "$a + $b", variables |-> <<"a", "b">>,
                  precedence |-> <<>>, associativity |-> "None"],
                 FunctionCall(Variable("add"), <<Variable("a"), Variable("b")>>))

Notations ==
    {Notation_ab,
     NotationDecl(InfixPattern("+"), InfixOp(Variable("y"), "+", Variable("x"))),
     NotationDecl(InfixPattern("+"),
                  FunctionCall(Variable("plus"), <<Variable("y"), Variable("x")>>)),
     NotationDecl(InfixPattern("+"),
                  FunctionCall(Variable("add"), <<Variable("x"), Variable("y")>>)),
     NotationDecl(InfixPattern("-"), InfixOp(Variable("x"), "+", Variable("y"))),
     NotationDecl(InfixPattern("*"),
                  FunctionCall(Variable("mul"), <<Variable("x"), Variable("y")>>))}

RawExprs ==
    {InfixOp(Int_(1), "+", Int_(2)),
     InfixOp(Int_(1), "-", Int_(2)),
     InfixOp(Int_(1), "*", Int_(2)),
     InfixOp(InfixOp(Int_(1), "-", Int_(2)), "+", Int_(1)),
     FunctionCall(Variable("f"), <<InfixOp(Int_(1), "-", Int_(2))>>),
     Assignment("a", InfixOp(Int_(1), "+", Int_(2))),
     Return(InfixOp(Int_(1), "*", Int_(2))),
     FunctionDef("g", <<"a">>, <<InfixOp(Variable("a"), "-", Int_(1))>>),
     InfixOp(Variable("y"), "+", Int_(1)),
     InfixOp(Variable("y"), "+", Variable("x")),
     Variable("x")}

RECURSIVE SeqsUpTo(_, _)
SeqsUpTo(S, n) ==
    IF n = 0 THEN {<<>>}
    ELSE LET T == SeqsUpTo(S, n - 1) IN T \cup {Append(t, x) : t \in T, x \in S}

RawPrograms ==
    {n \o e : n \in SeqsUpTo(Notations, MaxNotations),
              e \in SeqsUpTo(RawExprs, MaxRawExprs)}

InitFront ==
    /\ env = 1
    /\ heap = <<EmptyEnv>>
    /\ stack = <<>>
    /\ ctl = <<"idle">>
    /\ result = Bool_(FALSE)
    /\ pc = 0
    /\ outcome = <<"running">>
    /\ debug_mode = FALSE
    /\ depth = 0
    /\ modules = {}
    /\ py_modules = [n \in {} |-> 0]
    /\ \/ /\ entry = "parse_program"
          /\ input \in SourceTexts
          /\ stage = "text"
          /\ base = <<"none">>
       \/ /\ entry = "apply_notations"
          /\ input = <<>>
          /\ stage = "ast"
          /\ base \in {<<"Ok", p>> : p \in RawPrograms}
    /\ parsed = <<"none">>
    /\ again = <<"none">>

interp == <<env, heap, stack, ctl, result, pc, outcome, debug_mode, depth,
            modules, py_modules>>

\* parse_program, line 13: the call of base::parse_program returns
parse_program_base ==
    /\ entry = "parse_program"
    /\ stage = "text"
    /\ LET r == parse_base_program(input)
       IN  /\ r.st # "panic"
           /\ base' = IF r.st = "ok" THEN <<"Ok", r.val>> ELSE <<"Err", r.pos>>
    /\ stage' = "ast"
    /\ UNCHANGED <<entry, input, parsed, again>>
    /\ UNCHANGED interp

\* parse_program, line 13: an unwrap inside the grammar panics
parse_program_panics ==
    /\ entry = "parse_program"
    /\ stage = "text"
    /\ parse_base_program(input).st = "panic"
    /\ base' = <<"panic">>
    /\ parsed' = <<"panic">>
    /\ stage' = "done"
    /\ UNCHANGED <<entry, input, again>>
    /\ UNCHANGED interp

\* parse_program, lines 14-15: the ? returns the parse error
parse_program_err ==
    /\ entry = "parse_program"
    /\ stage = "ast"
    /\ base[1] = "Err"
    /\ parsed' = <<"Err", "Parse error">>
    /\ stage' = "done"
    /\ UNCHANGED <<entry, input, base, again>>
    /\ UNCHANGED interp

\* parse_program, line 24, or a direct call: apply_notations(base_ast)
apply_notations_call ==
    /\ stage = "ast"
    /\ base[1] = "Ok"
    /\ parsed' = <<"Ok", apply_notations(base[2])>>
    /\ stage' = "expanded"
    /\ UNCHANGED <<entry, input, base, again>>
    /\ UNCHANGED interp

\* apply_notations called once more, on the same declarations followed by
\* the expanded program
apply_notations_again ==
    /\ stage = "expanded"
    /\ again' = <<"Ok", apply_notations(SelectSeq(base[2], is_notation_decl) \o parsed[2])>>
    /\ stage' = "reexpanded"
    /\ UNCHANGED <<entry, input, base, parsed>>
    /\ UNCHANGED interp

NextFront ==
    \/ parse_program_base
    \/ parse_program_panics
    \/ parse_program_err
    \/ apply_notations_call
    \/ apply_notations_again

SpecFront == InitFront /\ [][NextFront]_vars

\* parse_program is sequential code: once the base parser has returned Ok,
\* the call of apply_notations is the next thing that runs
SpecFrontFair == SpecFront /\ WF_vars(apply_notations_call)

(***************************************************************************)
(* Properties of the front end, checked under SpecFront.                   *)
(***************************************************************************)
\* C5: notation expansion is idempotent on its output: apply_notations on
\* the declarations of a program followed by the expanded program returns
\* exactly the expanded program.
C5_ExpansionIdempotent ==
    stage = "reexpanded" => again = parsed

\* C7: Scenario A: the declaration of "$x plus $y" as add(x, y) followed by
\* `1 plus 2` is parsed and expanded to the single call add(1, 2).
C7_ScenarioA ==
    (entry = "parse_program" /\ input = ScenarioA /\ parsed[1] # "none") =>
        parsed = <<"Ok", <<FunctionCall(Variable("add"), <<Int_(1), Int_(2)>>)>>>>

\* C10: parsing is total-consumption: parse_program returns an expression
\* list only when the top-level expressions, with the whitespace and
\* comments around them, take up the whole input, and then it is the list of
\* all of them; when the top-level expressions stop before the end of the
\* input the result is an error, never the list parsed so far.
C10_TotalConsumption ==
    (entry = "parse_program" /\ stage # "text") =>
        LET r == program_body(input)
        IN  /\ base[1] = "Ok" =>
                r.st = "ok" /\ r.pos = Len(input) + 1 /\ base[2] = r.val
            /\ parsed[1] = "Ok" =>
                r.st = "ok" /\ r.pos = Len(input) + 1 /\ parsed[2] = apply_notations(r.val)
            /\ (r.st = "ok" /\ r.pos <= Len(input)) =>
                base[1] = "Err" /\ parsed[1] \in {"none", "Err"}

\* a text whose first top-level expressions parse and leave a remainder,
\* and for which parse_program has returned the error
C10_Witness ==
    /\ entry = "parse_program"
    /\ stage = "done"
    /\ program_body(input).st = "ok"
    /\ program_body(input).pos <= Len(input)
    /\ parsed[1] = "Err"

\* C11: parsing never panics: for every input, also one that holds an integer
\* literal outside the signed 64-bit range, parse_program returns an
\* expression list or a parse error.
C11_ParsingNeverPanics ==
    entry = "parse_program" => (base[1] # "panic" /\ parsed[1] # "panic")

\* C12: whitespace and comments are insignificant: a program that parses,
\* with a blank, a block comment or a line comment put after any of its
\* syntactic units (a line comment also as the end of the input), parses to
\* the same expression list.
C12_WhitespaceInsignificant ==
    (entry = "parse_program" /\ stage # "text") =>
        \A u \in UnitPrograms : \A k \in 1..Len(u) : \A f \in FillersAt(u, k) :
            (input = Insert(u, k, f) /\ parse_base_program(Join(u)).st = "ok") =>
                base = <<"Ok", parse_base_program(Join(u)).val>>

\* C20: when a program is one notation, declared with two variables v1 and
\* v2 and the pattern "$v1 op $v2", followed by one InfixOp(left, op, right),
\* its expansion is the notation's template with v1 replaced by left and v2
\* by right (each expanded first), whatever v1 and v2 are called.
C20_DeclaredVariablesBound ==
    (stage = "expanded" /\ base[1] = "Ok" /\ Len(base[2]) = 2
        /\ base[2][1][1] = "NotationDecl" /\ base[2][2][1] = "InfixOp"
        /\ Len(base[2][1][2].variables) = 2
        /\ base[2][1][2].pattern =
               ((("$" \o base[2][1][2].variables[1]) \o " ") \o base[2][2][3])
                   \o (" $" \o base[2][1][2].variables[2]))
    => parsed = <<"Ok",
                  <<expand_notation(base[2][1][3],
                       (base[2][1][2].variables[1] :>
                            expand_expr(base[2][2][2], <<base[2][1]>>))
                       @@ (base[2][1][2].variables[2] :>
                            expand_expr(base[2][2][4], <<base[2][1]>>)))>>>>

\* C21: the output of apply_notations holds no notation declaration and has
\* one expression for each other top-level expression, in the same order;
\* an InfixOp is rewritten, after its operands have been expanded, by the
\* matching notation declared first and by no other, and is kept with its
\* expanded operands when no notation matches; a call keeps its shape with
\* expanded callee and arguments, and a literal or variable is unchanged.
C21_BottomUpFirstMatch ==
    (stage = "expanded" /\ base[1] = "Ok") =>
        LET ns == SelectSeq(base[2], LAMBDA e : e[1] = "NotationDecl")
            es == SelectSeq(base[2], LAMBDA e : e[1] # "NotationDecl")
            matching(op) == {i \in 1..Len(ns) :
                                ns[i][2].pattern = ("$x " \o op) \o " $y"}
            first(op) == CHOOSE i \in matching(op) : \A j \in matching(op) : i <= j
        IN  /\ parsed[1] = "Ok"
            /\ Len(parsed[2]) = Len(es)
            /\ \A k \in 1..Len(es) :
                  LET e == es[k]
                      out == parsed[2][k]
                  IN  /\ out[1] # "NotationDecl"
                      /\ e[1] = "InfixOp" =>
                            LET left == expand_expr(e[2], ns)
                                right == expand_expr(e[4], ns)
                            IN  IF matching(e[3]) = {}
                                THEN out = InfixOp(left, e[3], right)
                                ELSE out = expand_notation(ns[first(e[3])][3],
                                               ("x" :> left) @@ ("y" :> right))
                      /\ e[1] = "FunctionCall" =>
                            /\ out[1] = "FunctionCall"
                            /\ out[2] = expand_expr(e[2], ns)
                            /\ Len(out[3]) = Len(e[3])
                            /\ \A a \in 1..Len(e[3]) : out[3][a] = expand_expr(e[3][a], ns)
                      /\ e[1] \in {"Variable", "Primitive"} => out = e

\* C21 witness: of two notations for +, the one declared first has rewritten
\* 1 + 2, and the declarations are gone from the output
C21_Witness ==
    /\ stage = "expanded"
    /\ base[1] = "Ok"
    /\ Len(base[2]) = 3
    /\ base[2][1] = NotationDecl(InfixPattern("+"),
                        FunctionCall(Variable("plus"), <<Variable("y"), Variable("x")>>))
    /\ base[2][2] = NotationDecl(InfixPattern("+"),
                        FunctionCall(Variable("add"), <<Variable("x"), Variable("y")>>))
    /\ base[2][3] = InfixOp(Int_(1), "+", Int_(2))
    /\ parsed = <<"Ok", <<FunctionCall(Variable("plus"), <<Int_(2), Int_(1)>>)>>>>

C24_CaptureFreeSubstitution ==
    (stage = "expanded" /\ base[1] = "Ok" /\ Len(base[2]) = 2
        /\ base[2][1][1] = "NotationDecl" /\ base[2][2][1] = "InfixOp"
        /\ base[2][1][2].pattern = ("$x " \o base[2][2][3]) \o " $y"
        /\ base[2][1][3][1] = "FunctionCall"
        /\ base[2][2][2][1] \in {"Variable", "Primitive"}
        /\ base[2][2][4][1] \in {"Variable", "Primitive"})
    => LET template == base[2][1][3]
           left == base[2][2][2]
           right == base[2][2][4]
       IN  parsed = <<"Ok",
                      <<FunctionCall(template[2],
                            [k \in 1..Len(template[3]) |->
                                IF template[3][k] = Variable("x") THEN left
                                ELSE IF template[3][k] = Variable("y") THEN right
                                ELSE template[3][k]])>>>>

\* C24 witness: with the notation for + that expands to add(x, y), y + 1 has
\* become add(y, 1)
C24_Witness ==
    /\ stage = "expanded"
    /\ base = <<"Ok", <<NotationDecl(InfixPattern("+"),
                            FunctionCall(Variable("add"), <<Variable("x"), Variable("y")>>)),
                        InfixOp(Variable("y"), "+", Int_(1))>>>>
    /\ parsed = <<"Ok", <<FunctionCall(Variable("add"), <<Variable("y"), Int_(1)>>)>>>>

\* C25: apply_notations terminates: a program handed to it is eventually
\* expanded, whatever its notations; and the result of an expansion is not
\* scanned again: when the first matching notation of an InfixOp with a
\* literal or a variable on each side expands to an infix expression over the
\* pattern variables, the output is that infix expression with the operands
\* in place, also when its operator is the one the notation matches or is
\* matched by another notation.
C25_ApplyNotationsTerminates ==
    /\ (stage = "ast" /\ base[1] = "Ok") ~> (stage = "expanded" /\ parsed[1] = "Ok")
    /\ [](  (stage = "expanded" /\ base[1] = "Ok")
         => LET ns == SelectSeq(base[2], LAMBDA e : e[1] = "NotationDecl")
                es == SelectSeq(base[2], LAMBDA e : e[1] # "NotationDecl")
                matching(op) == {i \in 1..Len(ns) :
                                    ns[i][2].pattern = ("$x " \o op) \o " $y"}
                first(op) == CHOOSE i \in matching(op) : \A j \in matching(op) : i <= j
                leaf(e) == e[1] \in {"Variable", "Primitive"}
                operand(v, e) == IF v = Variable("x") THEN e[2]
                                 ELSE IF v = Variable("y") THEN e[4] ELSE v
            IN  \A k \in 1..Len(es) :
                   (es[k][1] = "InfixOp" /\ leaf(es[k][2]) /\ leaf(es[k][4])
                        /\ matching(es[k][3]) # {}
                        /\ ns[first(es[k][3])][3][1] = "InfixOp"
                        /\ leaf(ns[first(es[k][3])][3][2])
                        /\ leaf(ns[first(es[k][3])][3][4]))
                   => parsed[2][k] =
                          InfixOp(operand(ns[first(es[k][3])][3][2], es[k]),
                                  ns[first(es[k][3])][3][3],
                                  operand(ns[first(es[k][3])][3][4], es[k])))

\* C25 witness: the notation for + whose expansion is y + x, declared before
\* another notation for +, has turned 1 + 2 into 2 + 1 and expansion has
\* stopped there
C25_Witness ==
    /\ stage = "expanded"
    /\ base = <<"Ok", <<NotationDecl(InfixPattern("+"),
                            InfixOp(Variable("y"), "+", Variable("x"))),
                        NotationDecl(InfixPattern("+"),
                            FunctionCall(Variable("add"), <<Variable("x"), Variable("y")>>)),
                        InfixOp(Int_(1), "+", Int_(2))>>>>
    /\ parsed = <<"Ok", <<InfixOp(Int_(2), "+", Int_(1))>>>>

\* C27: the text name(a){a} parses to the definition of a function with
\* exactly that name, for every identifier, those that begin with the
\* letters fn included.
C27_FunctionNameAsWritten ==
    (entry = "parse_program" /\ stage # "text") =>
        \A n \in FunctionNames :
            input = n \o <<"(", "a", ")", "{", "a", "}">>
                => base = <<"Ok", <<FunctionDef(Str(n), <<"a">>, <<Variable("a")>>)>>>>

====
